---- MODULE Spec2Model ----
(***************************************************************************)
(* Peer connection engine of boosttorrent2 (src/src/peer/mod.rs).          *)
(*                                                                         *)
(* Every connection is one task: PeerInfo::connect (outbound) or           *)
(* handle_stream (inbound).  A task sends our handshake, reads one         *)
(* handshake through a Framed<HandshakeCodec>, takes the socket back with  *)
(* Framed::into_inner, wraps it in a Framed<MessageCodec> and then drives  *)
(* two forwarding duties under select2.  The caller side holds the Peer    *)
(* handle (choke / interested / close / drop).                             *)
(*                                                                         *)
(* The unit of socket data is one frame (a whole handshake or a whole      *)
(* message); one socket read returns any non-empty prefix of the frames    *)
(* that are in flight.                                                     *)
(*                                                                         *)
(* The consumers of the shared channels and of connect's oneshot keep      *)
(* their receivers for the whole run.  Connections are numbered in the     *)
(* order they are started, and a run holds at most MaxEvents events of     *)
(* the environment; the steps of the tasks are not counted.                *)
(***************************************************************************)
EXTENDS Integers, Sequences, FiniteSets, TLC

VARIABLES
    kind,        \* kind[c]: "none" | "connect" | "accept"  (entry point used)
    pc,          \* pc[c]: position of the connection task
    wire,        \* wire[c]: frames the remote sent that no read returned yet
    sent,        \* sent[c]: every frame the remote sent, in order (history)
    remoteClosed,\* remoteClosed[c]: the remote closed its end of the socket
    dropped,     \* dropped[c]: frames left in the handshake Framed's buffer at into_inner
    entered,     \* entered[c]: the task ran the post-handshake closure (Bridging)
    handle,      \* handle[c]: "none" | "held" | "dropped"  (the Peer value)
    peerRx,      \* peerRx[c]: oneshot receiver returned by connect
    cmdq,        \* cmdq[c]: the unbounded mpsc queue input_sender -> input_receiver
    issued,      \* issued[c]: commands accepted by unbounded_send, in order (history)
    sockOut,     \* sockOut[c]: frames written to the socket by the task
    closeAt,     \* closeAt[c]: Len(issued[c]) when Peer::close() was called, -1 before
    panicked,    \* panicked[c]: a handle operation unwrapped an Err (caller aborted)
    wduty,       \* wduty[c]: write duty  (input_receiver.forward(socket_output))
    rduty,       \* rduty[c]: read duty   (socket_input.forward(ChannelSink))
    output,      \* shared consumer channel: sequence of [conn, m]
    lifecycle,   \* shared lifecycle channel: sequence of [ev, conn, id]
    events,      \* number of environment events so far
    req,         \* tracker: the HTTP exchange an announce call meets
    res          \* tracker: where the announce call stands, then what it returned

vars == <<kind, pc, wire, sent, remoteClosed, dropped, entered, handle, peerRx,
          cmdq, issued, sockOut, closeAt, panicked, wduty, rduty,
          output, lifecycle, events, req, res>>

trackerVars == <<req, res>>
peerVars == <<kind, pc, wire, sent, remoteClosed, dropped, entered, handle, peerRx,
              cmdq, issued, sockOut, closeAt, panicked, wduty, rduty,
              output, lifecycle, events>>

remoteVars == <<wire, sent, remoteClosed>>
callerVars == <<handle, cmdq, issued, closeAt, panicked>>

----------------------------------------------------------------------------
(* Bounds and value sets *)

Conns == {1, 2}

\* events of the environment (connections started, frames sent and sockets
\* closed by the remotes, operations on the handles, transport errors) in a run
MaxEvents == 5

\* an event of the environment, within the bound of the run
EnvEvent == events < MaxEvents /\ events' = events + 1 /\ UNCHANGED trackerVars
\* a step of a connection task
TaskEvent == UNCHANGED <<events, trackerVars>>

InfoHash  == "ih"                 \* the info hash the engine expects
OtherHash == "zz"                 \* any other info hash
PeerIds   == {"A", "B"}           \* remote peer ids
Messages  == {"Choke", "Unchoke"} \* messages a remote sends

HsFrame(h, p) == [t |-> "hs", info_hash |-> h, peer_id |-> p]
MsgFrame(m)   == [t |-> "msg", m |-> m]
BadFrame      == [t |-> "bad"]
OurHandshake  == [t |-> "hs", info_hash |-> InfoHash, peer_id |-> "me"]

None == [t |-> "none"]

----------------------------------------------------------------------------
(* Pure parts of the task *)

\* HandshakeCodec::decode on the buffered frames: the first frame is the
\* handshake (Some), a frame that is no handshake is a framing error.
HandshakeDecode(buf) ==
    IF Head(buf).t = "hs" THEN [ok |-> TRUE,  hs |-> Head(buf), rest |-> Tail(buf)]
                          ELSE [ok |-> FALSE, hs |-> None,      rest |-> buf]

\* (variant: the info hash of the handshake is not compared)
HandshakeAcceptedAnyHash(maybe_handshake, info_hash) ==
    maybe_handshake.t = "hs"

\* the match on maybe_handshake: Some(handshake) if handshake.info_hash == info_hash
HandshakeAccepted(maybe_handshake, info_hash) ==
    /\ maybe_handshake.t = "hs"
    /\ maybe_handshake.info_hash = info_hash

\* read.reunite(write).unwrap().into_inner(): the Framed gives back the I/O
\* object; what its read buffer still holds is not handed over.
into_inner(framed) == framed.io

\* (variant: both futures are awaited)
selectJoin(w, r) == w # "running" /\ r # "running"

\* select2: resolves as soon as one of the two futures is no longer running
select2(w, r) == w # "running" \/ r # "running"

\* (variant: the newest item of the source is taken first)
forwardNewest(src, sink) ==
    [src |-> SubSeq(src, 1, Len(src) - 1), sink |-> Append(sink, src[Len(src)])]

\* one step of Forward: the oldest item of the source goes to the sink
forward(src, sink) == [src |-> Tail(src), sink |-> Append(sink, Head(src))]

\* MessageCodec::encode of a command
EncodeCmd(m) == MsgFrame(m)

\* MessageCodec::decode of one whole frame: the message it holds
MessageDecode(frame) == IF frame.t = "msg" THEN frame.m ELSE "undecodable"

\* ChannelSink: the item is sent on the crossbeam channel it wraps (the
\* connection is recorded with it to tell the producers apart)
ChannelSinkSend(out, c, m) == Append(out, [conn |-> c, m |-> m])

\* the .then finalizer of handle_stream; connect has none
Finalizer(k, c, id) ==
    IF k = "accept" THEN <<[ev |-> "Stopped", conn |-> c, id |-> id]>> ELSE <<>>

\* (variant: the Started notification is left out)
StartNoticeMissing(k, c, id) == <<>>

\* the lifecycle notification on entering Bridging (handle_stream only)
StartNotice(k, c, id) ==
    IF k = "accept" THEN <<[ev |-> "Started", conn |-> c, id |-> id]>> ELSE <<>>

\* unbounded_send succeeds while the receiver half is alive
ReceiverAlive(c) == pc[c] = "Bridging"

\* the peer id of the handshake the task accepted
TheirPeerId(c) == sent[c][1].peer_id

----------------------------------------------------------------------------
\* no connection yet
PeerInit ==
    /\ kind = [c \in Conns |-> "none"]
    /\ pc = [c \in Conns |-> "Idle"]
    /\ wire = [c \in Conns |-> <<>>]
    /\ sent = [c \in Conns |-> <<>>]
    /\ remoteClosed = [c \in Conns |-> FALSE]
    /\ dropped = [c \in Conns |-> <<>>]
    /\ entered = [c \in Conns |-> FALSE]
    /\ handle = [c \in Conns |-> "none"]
    /\ peerRx = [c \in Conns |-> "none"]
    /\ cmdq = [c \in Conns |-> <<>>]
    /\ issued = [c \in Conns |-> <<>>]
    /\ sockOut = [c \in Conns |-> <<>>]
    /\ closeAt = [c \in Conns |-> -1]
    /\ panicked = [c \in Conns |-> FALSE]
    /\ wduty = [c \in Conns |-> "idle"]
    /\ rduty = [c \in Conns |-> "idle"]
    /\ output = <<>>
    /\ lifecycle = <<>>
    /\ events = 0

\* no announce in progress
NoRequest == [transport |-> "none", status |-> 0, body |-> [t |-> "absent", v |-> 0]]
NoResult  == [out |-> "none"]

Init == PeerInit /\ req = NoRequest /\ res = NoResult

----------------------------------------------------------------------------
(* Entry points *)

\* connections are numbered in the order they are started
NextConn(c) == pc[c] = "Idle" /\ \A d \in Conns : d < c => pc[d] # "Idle"

\* PeerInfo::connect called and its future spawned
Connect(c) ==
    /\ EnvEvent
    /\ NextConn(c)
    /\ kind' = [kind EXCEPT ![c] = "connect"]
    /\ pc' = [pc EXCEPT ![c] = "Connecting"]
    /\ peerRx' = [peerRx EXCEPT ![c] = "pending"]
    /\ UNCHANGED <<remoteVars, dropped, entered, callerVars, sockOut, wduty, rduty,
                   output, lifecycle>>

\* handle_stream called on an accepted socket and its future spawned
Accept(c) ==
    /\ EnvEvent
    /\ NextConn(c)
    /\ kind' = [kind EXCEPT ![c] = "accept"]
    /\ pc' = [pc EXCEPT ![c] = "SendHs"]
    /\ UNCHANGED <<remoteVars, dropped, entered, callerVars, peerRx, sockOut,
                   wduty, rduty, output, lifecycle>>

\* (variant: the closure that owns peer_sender outlives the failed chain)
FailBeforeBridgingKeepsSender(c) ==
    /\ pc' = [pc EXCEPT ![c] = "Closed"]
    /\ UNCHANGED <<kind, dropped, entered, callerVars, peerRx, sockOut, wduty, rduty,
                   output, lifecycle>>

\* the task ends before Bridging: map_err, the rest of the chain is skipped;
\* connect's peer_sender is dropped with the closure that owned it
FailBeforeBridging(c) ==
    /\ pc' = [pc EXCEPT ![c] = "Closed"]
    /\ peerRx' = [peerRx EXCEPT ![c] = IF kind[c] = "connect" THEN "canceled" ELSE @]
    /\ UNCHANGED <<kind, dropped, entered, callerVars, sockOut, wduty, rduty,
                   output, lifecycle>>

\* TcpStream::connect resolves
TcpConnected(c) ==
    /\ TaskEvent
    /\ pc[c] = "Connecting"
    /\ pc' = [pc EXCEPT ![c] = "SendHs"]
    /\ UNCHANGED <<kind, remoteVars, dropped, entered, callerVars, peerRx, sockOut,
                   wduty, rduty, output, lifecycle>>

\* TcpStream::connect fails
TcpConnectFailed(c) ==
    /\ EnvEvent
    /\ pc[c] = "Connecting"
    /\ FailBeforeBridging(c)
    /\ UNCHANGED remoteVars

----------------------------------------------------------------------------
(* The remote peer *)

RemoteSend(c) ==
    /\ EnvEvent
    /\ pc[c] \in {"SendHs", "ReadHs", "Bridging"}
    /\ ~remoteClosed[c]
    /\ \E f \in (IF sent[c] = <<>>
                 THEN {HsFrame(h, p) : h \in {InfoHash, OtherHash}, p \in PeerIds}
                        \cup {BadFrame}
                 ELSE {MsgFrame(m) : m \in Messages} \cup {BadFrame}) :
          /\ wire' = [wire EXCEPT ![c] = Append(@, f)]
          /\ sent' = [sent EXCEPT ![c] = Append(@, f)]
    /\ UNCHANGED <<kind, pc, remoteClosed, dropped, entered, callerVars, peerRx,
                   sockOut, wduty, rduty, output, lifecycle>>

RemoteClose(c) ==
    /\ EnvEvent
    /\ pc[c] \in {"SendHs", "ReadHs", "Bridging"}
    /\ ~remoteClosed[c]
    /\ remoteClosed' = [remoteClosed EXCEPT ![c] = TRUE]
    /\ UNCHANGED <<kind, pc, wire, sent, dropped, entered, callerVars, peerRx,
                   sockOut, wduty, rduty, output, lifecycle>>

----------------------------------------------------------------------------
(* Handshaking *)

\* write.send((info_hash, our_peer_id).into())
SendHandshake(c) ==
    /\ TaskEvent
    /\ pc[c] = "SendHs"
    /\ sockOut' = [sockOut EXCEPT ![c] = Append(@, OurHandshake)]
    /\ pc' = [pc EXCEPT ![c] = "ReadHs"]
    /\ UNCHANGED <<kind, remoteVars, dropped, entered, callerVars, peerRx,
                   wduty, rduty, output, lifecycle>>

\* a transport error while the handshake is written or read
HandshakeIoError(c) ==
    /\ EnvEvent
    /\ pc[c] \in {"SendHs", "ReadHs"}
    /\ FailBeforeBridging(c)
    /\ UNCHANGED remoteVars

\* read.take(1).into_future() resolves with None: the stream ended first
ReadHandshakeEof(c) ==
    /\ TaskEvent
    /\ pc[c] = "ReadHs"
    /\ wire[c] = <<>>
    /\ remoteClosed[c]
    /\ ~HandshakeAccepted(None, InfoHash)
    /\ FailBeforeBridging(c)
    /\ UNCHANGED remoteVars

\* One socket read of k frames into the handshake Framed, the decode, the
\* match on the handshake and, when it is accepted, the whole post-handshake
\* closure (all of it runs in the same poll): into_inner, the Peer handed
\* out (oneshot for connect, Started(Peer) for handle_stream), the message
\* Framed and the two forwards under select2.
ReadHandshake(c) ==
    /\ TaskEvent
    /\ pc[c] = "ReadHs"
    /\ \E k \in 1..Len(wire[c]) :
        LET d      == HandshakeDecode(SubSeq(wire[c], 1, k))
            framed == [io  |-> SubSeq(wire[c], k + 1, Len(wire[c])),
                       buf |-> d.rest]
        IN  IF d.ok /\ HandshakeAccepted(d.hs, InfoHash)
            THEN /\ wire' = [wire EXCEPT ![c] = into_inner(framed)]
                 /\ dropped' = [dropped EXCEPT ![c] = framed.buf]
                 /\ entered' = [entered EXCEPT ![c] = TRUE]
                 /\ handle' = [handle EXCEPT ![c] = "held"]
                 /\ peerRx' = [peerRx EXCEPT ![c] =
                                 IF kind[c] = "connect" THEN "ready" ELSE @]
                 /\ lifecycle' = lifecycle \o StartNotice(kind[c], c, d.hs.peer_id)
                 /\ wduty' = [wduty EXCEPT ![c] = "running"]
                 /\ rduty' = [rduty EXCEPT ![c] = "running"]
                 /\ pc' = [pc EXCEPT ![c] = "Bridging"]
                 /\ UNCHANGED <<kind, sent, remoteClosed, cmdq, issued, sockOut,
                                closeAt, panicked, output>>
            ELSE /\ wire' = [wire EXCEPT ![c] = framed.io]
                 /\ FailBeforeBridging(c)
                 /\ UNCHANGED <<sent, remoteClosed>>

----------------------------------------------------------------------------
(* Bridging: output.select2(input) *)

\* (variant: the end of one connection tears down every bridging connection)
ResolveAll(c, w, r) ==
    LET over == select2(w, r)
        hit(d) == over /\ (d = c \/ pc[d] = "Bridging")
    IN
    /\ wduty' = [d \in Conns |-> IF d = c
                                 THEN (IF over /\ w = "running" THEN "dropped" ELSE w)
                                 ELSE IF hit(d) THEN "dropped" ELSE wduty[d]]
    /\ rduty' = [d \in Conns |-> IF d = c
                                 THEN (IF over /\ r = "running" THEN "dropped" ELSE r)
                                 ELSE IF hit(d) THEN "dropped" ELSE rduty[d]]
    /\ pc' = [d \in Conns |-> IF hit(d) THEN "Closed" ELSE pc[d]]
    /\ cmdq' = [d \in Conns |-> IF hit(d) THEN <<>> ELSE cmdq[d]]
    /\ wire' = [d \in Conns |-> IF hit(d) THEN <<>> ELSE wire[d]]
    /\ lifecycle' = IF over
                    THEN lifecycle \o Finalizer(kind[c], c, TheirPeerId(c))
                    ELSE lifecycle

\* The state of the two duties after one of them moved to w / r.  When
\* select2 resolves the whole future is dropped: the other duty with it, the
\* command receiver (and what it still queues) too, and handle_stream's
\* finalizer sends Stopped.
Resolve(c, w, r) ==
    LET over == select2(w, r) IN
    /\ wduty' = [wduty EXCEPT ![c] = IF over /\ w = "running" THEN "dropped" ELSE w]
    /\ rduty' = [rduty EXCEPT ![c] = IF over /\ r = "running" THEN "dropped" ELSE r]
    /\ pc' = [pc EXCEPT ![c] = IF over THEN "Closed" ELSE @]
    /\ cmdq' = [cmdq EXCEPT ![c] = IF over THEN <<>> ELSE @]
    /\ wire' = [wire EXCEPT ![c] = IF over THEN <<>> ELSE @]
    /\ lifecycle' = IF over
                    THEN lifecycle \o Finalizer(kind[c], c, TheirPeerId(c))
                    ELSE lifecycle

\* write duty: the next queued command is encoded and written
WriteCmd(c) ==
    /\ TaskEvent
    /\ pc[c] = "Bridging" /\ wduty[c] = "running"
    /\ cmdq[c] # <<>>
    /\ LET f == forward(cmdq[c], <<>>) IN
        /\ cmdq' = [cmdq EXCEPT ![c] = f.src]
        /\ sockOut' = [sockOut EXCEPT ![c] = Append(@, EncodeCmd(f.sink[1]))]
    /\ UNCHANGED <<kind, pc, remoteVars, dropped, entered, handle, issued,
                   closeAt, panicked, peerRx, wduty, rduty, output, lifecycle>>

\* write duty: the command stream ended (every sender is gone, nothing queued)
WriteDone(c) ==
    /\ TaskEvent
    /\ pc[c] = "Bridging" /\ wduty[c] = "running"
    /\ cmdq[c] = <<>>
    /\ handle[c] = "dropped"
    /\ Resolve(c, "done", rduty[c])
    /\ UNCHANGED <<kind, sent, remoteClosed, dropped, entered, handle, issued,
                   closeAt, panicked, peerRx, sockOut, output>>

\* write duty: socket output error
WriteFail(c) ==
    /\ EnvEvent
    /\ pc[c] = "Bridging" /\ wduty[c] = "running"
    /\ Resolve(c, "failed", rduty[c])
    /\ UNCHANGED <<kind, sent, remoteClosed, dropped, entered, handle, issued,
                   closeAt, panicked, peerRx, sockOut, output>>

\* read duty: the next message is decoded and sent on the shared channel
ReadMsg(c) ==
    /\ TaskEvent
    /\ pc[c] = "Bridging" /\ rduty[c] = "running"
    /\ wire[c] # <<>>
    /\ Head(wire[c]).t = "msg"
    /\ LET f == forward(wire[c], <<>>) IN
        /\ wire' = [wire EXCEPT ![c] = f.src]
        /\ output' = ChannelSinkSend(output, c, MessageDecode(f.sink[1]))
    /\ UNCHANGED <<kind, pc, sent, remoteClosed, dropped, entered, callerVars,
                   peerRx, sockOut, wduty, rduty, lifecycle>>

\* read duty: the bytes on the socket are no message (decode error)
ReadBad(c) ==
    /\ TaskEvent
    /\ pc[c] = "Bridging" /\ rduty[c] = "running"
    /\ wire[c] # <<>>
    /\ Head(wire[c]).t # "msg"
    /\ Resolve(c, wduty[c], "failed")
    /\ UNCHANGED <<kind, sent, remoteClosed, dropped, entered, handle, issued,
                   closeAt, panicked, peerRx, sockOut, output>>

\* read duty: the remote closed the socket and everything was read
ReadEof(c) ==
    /\ TaskEvent
    /\ pc[c] = "Bridging" /\ rduty[c] = "running"
    /\ wire[c] = <<>>
    /\ remoteClosed[c]
    /\ Resolve(c, wduty[c], "done")
    /\ UNCHANGED <<kind, sent, remoteClosed, dropped, entered, handle, issued,
                   closeAt, panicked, peerRx, sockOut, output>>

\* read duty: socket receive error or output send error
ReadFail(c) ==
    /\ EnvEvent
    /\ pc[c] = "Bridging" /\ rduty[c] = "running"
    /\ Resolve(c, wduty[c], "failed")
    /\ UNCHANGED <<kind, sent, remoteClosed, dropped, entered, handle, issued,
                   closeAt, panicked, peerRx, sockOut, output>>

----------------------------------------------------------------------------
(* The Peer handle *)

\* self.tx.borrow().unbounded_send(m).map_err(print).unwrap()
HandleSend(c, m) ==
    /\ EnvEvent
    /\ handle[c] = "held"
    /\ IF ReceiverAlive(c)
       THEN /\ cmdq' = [cmdq EXCEPT ![c] = Append(@, m)]
            /\ issued' = [issued EXCEPT ![c] = Append(@, m)]
            /\ UNCHANGED <<handle, panicked>>
       ELSE /\ panicked' = [panicked EXCEPT ![c] = TRUE]
            /\ handle' = [handle EXCEPT ![c] = "dropped"]
            /\ UNCHANGED <<cmdq, issued>>
    /\ UNCHANGED <<kind, pc, remoteVars, dropped, entered, closeAt, peerRx,
                   sockOut, wduty, rduty, output, lifecycle>>

\* Peer::choke
choke(c) == HandleSend(c, "Choke")

\* Peer::interested
interested(c) == \E b \in BOOLEAN :
                    HandleSend(c, IF b THEN "Interested" ELSE "NotInterested")

\* Peer::close: Sink::close of the futures 0.1 UnboundedSender answers Ready
\* and leaves the channel as it is
close(c) ==
    /\ EnvEvent
    /\ handle[c] = "held"
    /\ closeAt[c] = -1
    /\ closeAt' = [closeAt EXCEPT ![c] = Len(issued[c])]
    /\ UNCHANGED <<kind, pc, remoteVars, dropped, entered, handle, cmdq, issued,
                   panicked, peerRx, sockOut, wduty, rduty, output, lifecycle>>

\* the owner of the Peer drops it: the only sender of the command channel goes
DropHandle(c) ==
    /\ EnvEvent
    /\ handle[c] = "held"
    /\ handle' = [handle EXCEPT ![c] = "dropped"]
    /\ UNCHANGED <<kind, pc, remoteVars, dropped, entered, cmdq, issued,
                   closeAt, panicked, peerRx, sockOut, wduty, rduty, output,
                   lifecycle>>

----------------------------------------------------------------------------
\* what the runtime does when the task is woken: before Bridging the one
\* pending step, in Bridging select2 polls both duties
HandshakeStep(c) ==
    \/ TcpConnected(c)
    \/ SendHandshake(c)
    \/ ReadHandshake(c)
    \/ ReadHandshakeEof(c)

WriteStep(c) == WriteCmd(c) \/ WriteDone(c)

ReadStep(c) == ReadMsg(c) \/ ReadBad(c) \/ ReadEof(c)

Next ==
    \E c \in Conns :
        \/ Connect(c)
        \/ Accept(c)
        \/ TcpConnected(c)
        \/ TcpConnectFailed(c)
        \/ RemoteSend(c)
        \/ RemoteClose(c)
        \/ SendHandshake(c)
        \/ HandshakeIoError(c)
        \/ ReadHandshakeEof(c)
        \/ ReadHandshake(c)
        \/ WriteCmd(c)
        \/ WriteDone(c)
        \/ WriteFail(c)
        \/ ReadMsg(c)
        \/ ReadBad(c)
        \/ ReadEof(c)
        \/ ReadFail(c)
        \/ choke(c)
        \/ interested(c)
        \/ close(c)
        \/ DropHandle(c)

Spec == Init /\ [][Next]_vars

\* the runtime polls every task that is ready
FairSpec ==
    /\ Spec
    /\ \A c \in Conns : /\ WF_vars(HandshakeStep(c))
                        /\ WF_vars(WriteStep(c))
                        /\ WF_vars(ReadStep(c))

----------------------------------------------------------------------------
(* Views of the state used by the properties *)

\* the lifecycle events of kind e that connection c put on the channel
EventsOf(c, e) == SelectSeq(lifecycle, LAMBDA x : x.conn = c /\ x.ev = e)

\* positions in the lifecycle channel of the events of kind e of connection c
PositionsOf(c, e) ==
    {i \in 1..Len(lifecycle) : lifecycle[i].conn = c /\ lifecycle[i].ev = e}

\* the messages connection c put on the shared consumer channel, in order
Forwarded(c) ==
    LET mine == SelectSeq(output, LAMBDA x : x.conn = c)
    IN  [i \in 1..Len(mine) |-> mine[i].m]

\* the frames the remote of c sent after its handshake
AfterHandshake(c) == Tail(sent[c])

\* the remote's first frame is a handshake for the expected info hash
GoodHandshakeSent(c) ==
    /\ sent[c] # <<>>
    /\ sent[c][1].t = "hs"
    /\ sent[c][1].info_hash = InfoHash

----------------------------------------------------------------------------
(* C1: for every connection, Stopped is on the lifecycle channel at most   *)
(* once, and every Stopped of a connection comes after a Started of that   *)
(* same connection (so none without one).                                  *)
C1_StoppedOnceAfterStarted ==
    \A c \in Conns :
        /\ Cardinality(PositionsOf(c, "Stopped")) <= 1
        /\ \A i \in PositionsOf(c, "Stopped") :
              \E j \in PositionsOf(c, "Started") : j < i

C1_Witness ==
    \E c \in Conns :
        /\ pc[c] = "Closed"
        /\ Len(EventsOf(c, "Started")) = 1
        /\ Len(EventsOf(c, "Stopped")) = 1

(* C2: a connection opened by connect that entered Bridging and ended has  *)
(* put exactly one Stopped on the lifecycle channel.                       *)
C2_OutboundStoppedOnce ==
    \A c \in Conns :
        (kind[c] = "connect" /\ entered[c] /\ pc[c] = "Closed")
            => Len(EventsOf(c, "Stopped")) = 1

(* C3: while no handshake for the expected info hash has been received     *)
(* (nothing arrived, the stream ended, the frame is no handshake or its    *)
(* info hash differs) the connection never enters Bridging, puts neither   *)
(* Started nor Stopped on the lifecycle channel and delivers no Peer, on    *)
(* both entry points; once the task has read such a stream it is Closed.   *)
C3_BadHandshakeSilent ==
    \A c \in Conns :
        /\ ~GoodHandshakeSent(c) =>
              /\ ~entered[c]
              /\ pc[c] # "Bridging"
              /\ EventsOf(c, "Started") = <<>>
              /\ EventsOf(c, "Stopped") = <<>>
              /\ handle[c] = "none"
              /\ peerRx[c] # "ready"
        /\ (pc[c] = "Closed" /\ ~entered[c]) =>
              /\ EventsOf(c, "Started") = <<>>
              /\ EventsOf(c, "Stopped") = <<>>
              /\ handle[c] = "none"
              /\ peerRx[c] # "ready"

C3_Witness ==
    \E c, d \in Conns :
        /\ kind[c] = "accept" /\ kind[d] = "connect"
        /\ pc[c] = "Closed" /\ pc[d] = "Closed"
        /\ sent[c] # <<>> /\ sent[c][1].t = "hs" /\ sent[c][1].info_hash = OtherHash
        /\ wire[c] = <<>>
        /\ sent[d] = <<>> /\ remoteClosed[d]


(* C4: for every connection in Bridging, of connect or of handle_stream,   *)
(* whose remote has closed the socket, under fair scheduling the task      *)
(* eventually ends with exactly one Stopped on the lifecycle channel, and  *)
(* an ended connection never has more than one.                            *)
C4_RemoteCloseStops ==
    /\ \A c \in Conns :
          (pc[c] = "Bridging" /\ remoteClosed[c])
              ~> (pc[c] = "Closed" /\ Len(EventsOf(c, "Stopped")) = 1)
    /\ [](\A c \in Conns : pc[c] = "Closed" => Len(EventsOf(c, "Stopped")) <= 1)

(* C5: in Bridging, as soon as one duty has completed or failed the        *)
(* connection is Closed and the other duty is dropped, not awaited; from   *)
(* then on the connection forwards no further message to the shared        *)
(* channel.                                                                *)
C5_RaceEndsConnection ==
    /\ [](\A c \in Conns :
            /\ wduty[c] \in {"done", "failed"} =>
                   pc[c] = "Closed" /\ rduty[c] = "dropped"
            /\ rduty[c] \in {"done", "failed"} =>
                   pc[c] = "Closed" /\ wduty[c] = "dropped")
    /\ [][\A c \in Conns : pc[c] = "Closed" => Forwarded(c)' = Forwarded(c)]_vars

\* the command channel ended while the socket was open with frames unread
C5_Witness ==
    \E c \in Conns :
        /\ wduty[c] = "done"
        /\ rduty[c] = "dropped"
        /\ ~remoteClosed[c]
        /\ Len(dropped[c]) + Len(Forwarded(c)) < Len(AfterHandshake(c))
        /\ AfterHandshake(c)[Len(dropped[c]) + Len(Forwarded(c)) + 1].t = "msg"

(* C6: after Peer::close() on the handle of a connection in Bridging,      *)
(* under fair scheduling the connection eventually ends and its Stopped    *)
(* is on the lifecycle channel.                                            *)
C6_CloseEndsConnection ==
    \A c \in Conns :
        (closeAt[c] >= 0 /\ pc[c] = "Bridging")
            ~> (pc[c] = "Closed" /\ Len(EventsOf(c, "Stopped")) = 1)

(* C7: once Peer::close() was called on a handle, no later command of that *)
(* handle is accepted by the command channel or written to the socket.     *)
C7_NoCommandAfterClose ==
    \A c \in Conns :
        closeAt[c] >= 0 =>
            /\ Len(issued[c]) = closeAt[c]
            /\ Len(sockOut[c]) - 1 <= closeAt[c]

(* C8: choke() and interested() never abort their caller, also when the    *)
(* connection has torn down.                                               *)
C8_SendNeverPanics ==
    \A c \in Conns : ~panicked[c]

(* C9: while a connection is in Bridging, the frames its remote sent after *)
(* the handshake are exactly the messages the message codec has decoded    *)
(* followed by the frames still to be read: none is missing or repeated.   *)
C9_ReframeKeepsBytes ==
    \A c \in Conns :
        pc[c] = "Bridging" =>
            AfterHandshake(c) =
                [i \in 1..Len(Forwarded(c)) |-> MsgFrame(Forwarded(c)[i])] \o wire[c]

(* C10: the messages a connection put on the shared channel are, in order  *)
(* and one for one, the frames its remote sent from the first frame the    *)
(* message codec read; the commands written to the socket are, in order,   *)
(* the first ones accepted on the handle.                                  *)
C10_OrderPreserved ==
    \A c \in Conns :
        LET d == Len(dropped[c])
            n == Len(Forwarded(c))
            w == Len(sockOut[c]) - 1
        IN  /\ n > 0 =>
                  /\ d + n <= Len(AfterHandshake(c))
                  /\ \A i \in 1..n :
                        AfterHandshake(c)[d + i] = MsgFrame(Forwarded(c)[i])
            /\ w > 0 =>
                  /\ w <= Len(issued[c])
                  /\ \A i \in 1..w : sockOut[c][i + 1] = EncodeCmd(issued[c][i])

\* two different messages forwarded in the order sent, and a command written
C10_Witness ==
    \E c \in Conns :
        /\ Len(Forwarded(c)) = 2
        /\ Forwarded(c)[1] # Forwarded(c)[2]
        /\ Len(sockOut[c]) = 2
        /\ sockOut[c][2] = EncodeCmd(issued[c][1])

----------------------------------------------------------------------------
\* everything one connection task, its socket and its handle own
ConnState(c) ==
    <<kind[c], pc[c], wire[c], sent[c], remoteClosed[c], dropped[c], entered[c],
      handle[c], peerRx[c], cmdq[c], issued[c], sockOut[c], closeAt[c],
      panicked[c], wduty[c], rduty[c]>>

(* C11: a step in which one connection ends (in Connecting, Handshaking or *)
(* Bridging, for whatever reason) leaves the whole state of every other    *)
(* connection as it was, so that connection can go on forwarding, and puts *)
(* no lifecycle event and no message of another connection on the shared   *)
(* channels.                                                               *)
C11_FailureIsLocal ==
    [][\A c \in Conns :
          (pc[c] # "Closed" /\ pc'[c] = "Closed") =>
              \A d \in Conns \ {c} :
                  /\ ConnState(d)' = ConnState(d)
                  /\ EventsOf(d, "Started")' = EventsOf(d, "Started")
                  /\ EventsOf(d, "Stopped")' = EventsOf(d, "Stopped")
                  /\ Forwarded(d)' = Forwarded(d)]_vars

\* one connection failed in Bridging while the other is bridging, started and
\* not stopped
C11_Witness ==
    \E c, d \in Conns :
        /\ c # d
        /\ pc[c] = "Closed" /\ entered[c]
        /\ (rduty[c] = "failed" \/ wduty[c] = "failed")
        /\ pc[d] = "Bridging"
        /\ kind[d] = "accept"
        /\ Len(EventsOf(d, "Started")) = 1
        /\ EventsOf(d, "Stopped") = <<>>

(***************************************************************************)
(* Tracker client: bencoded values, the decoding of a tracker response     *)
(* and announce.                                                           *)
(***************************************************************************)

PeerIdLen == 20     \* [u8; 20]
ChunkLen  == 6      \* chunks(6)
StatusOK  == 200    \* StatusCode::OK

\* A bencoded value.  An integer is a signed 64-bit number kept as four
\* 16-bit limbs, least significant first (two's complement), so that the
\* narrowing casts of the decoder can be computed.  A byte string is the
\* sequence of its bytes, whatever they spell.
Absent        == [t |-> "absent",  v |-> 0]
Integer(l)    == [t |-> "integer", v |-> l]
BString(b)    == [t |-> "bstring", v |-> b]
List(items)   == [t |-> "list",    v |-> items]
Dict(map)     == [t |-> "dict",    v |-> map]

\* limbs of a small non-negative number, and of n + 2^16 and n + 2^32
I64(n)        == <<n, 0, 0, 0>>
I64Plus16(n)  == <<n, 1, 0, 0>>
I64Plus32(n)  == <<n, 0, 1, 0>>
\* limbs of -1
MinusOne      == <<65535, 65535, 65535, 65535>>

\* the UTF-8 bytes of the texts the model writes as strings
Utf8(s) ==
    CASE s = "" -> <<>>
      [] s = "abcdef" -> <<97, 98, 99, 100, 101, 102>>
      [] s = "torrent unknown" -> <<116, 111, 114, 114, 101, 110, 116, 32, 117, 110, 107, 110, 111, 119, 110>>
      [] s = "slow down" -> <<115, 108, 111, 119, 32, 100, 111, 119, 110>>
      [] s = "1800" -> <<49, 56, 48, 48>>
      [] s = "900" -> <<57, 48, 48>>
      [] s = "tid" -> <<116, 105, 100>>
      [] s = "127.0.0.1" -> <<49, 50, 55, 46, 48, 46, 48, 46, 49>>
      [] s = "10.0.0.2" -> <<49, 48, 46, 48, 46, 48, 46, 50>>
      [] s = "::1" -> <<58, 58, 49>>
      [] s = "nope" -> <<110, 111, 112, 101>>
      [] s = "6881" -> <<54, 56, 56, 49>>
      [] s = "-BT0001-abcdefghijkl" -> <<45, 66, 84, 48, 48, 48, 49, 45, 97, 98, 99, 100, 101, 102, 103, 104, 105, 106, 107, 108>>
      [] s = "Not a dictionary" -> <<78, 111, 116, 32, 97, 32, 100, 105, 99, 116, 105, 111, 110, 97, 114, 121>>
      [] s = "unknown failure reason" -> <<117, 110, 107, 110, 111, 119, 110, 32, 102, 97, 105, 108, 117, 114, 101, 32, 114, 101, 97, 115, 111, 110>>
      [] s = "Missing key: interval" -> <<77, 105, 115, 115, 105, 110, 103, 32, 107, 101, 121, 58, 32, 105, 110, 116, 101, 114, 118, 97, 108>>
      [] s = "Missing key: complete" -> <<77, 105, 115, 115, 105, 110, 103, 32, 107, 101, 121, 58, 32, 99, 111, 109, 112, 108, 101, 116, 101>>
      [] s = "Missing key: incomplete" -> <<77, 105, 115, 115, 105, 110, 103, 32, 107, 101, 121, 58, 32, 105, 110, 99, 111, 109, 112, 108, 101, 116, 101>>

\* a byte string given by its text, and one given by its bytes
Text(s)  == BString(Utf8(s))
Bytes(b) == BString(b)

\* b[i] is a continuation byte within lo..hi
Cont(b, i, lo, hi) == i <= Len(b) /\ b[i] >= lo /\ b[i] <= hi

\* String::from_utf8: the bytes from position i on are well-formed UTF-8
RECURSIVE ValidUtf8From(_, _)
ValidUtf8From(b, i) ==
    IF i > Len(b) THEN TRUE
    ELSE IF b[i] <= 127 THEN ValidUtf8From(b, i + 1)
    ELSE IF b[i] >= 194 /\ b[i] <= 223
    THEN Cont(b, i + 1, 128, 191) /\ ValidUtf8From(b, i + 2)
    ELSE IF b[i] >= 224 /\ b[i] <= 239
    THEN /\ Cont(b, i + 1, IF b[i] = 224 THEN 160 ELSE 128,
                            IF b[i] = 237 THEN 159 ELSE 191)
         /\ Cont(b, i + 2, 128, 191)
         /\ ValidUtf8From(b, i + 3)
    ELSE IF b[i] >= 240 /\ b[i] <= 244
    THEN /\ Cont(b, i + 1, IF b[i] = 240 THEN 144 ELSE 128,
                            IF b[i] = 244 THEN 143 ELSE 191)
         /\ Cont(b, i + 2, 128, 191)
         /\ Cont(b, i + 3, 128, 191)
         /\ ValidUtf8From(b, i + 4)
    ELSE FALSE

\* Value::dict, Value::integer, Value::bstring, Value::bstring_utf8 answer
\* Some exactly for these values
IsDict(val)    == val.t = "dict"
IsInteger(val) == val.t = "integer"
IsBString(val) == val.t = "bstring"
IsUtf8(val)    == IsBString(val) /\ ValidUtf8From(val.v, 1)

\* `*i as u32` and `*i as u16` keep the low 32 and the low 16 bits
AsU32(i) == <<i[1], i[2]>>
AsU16(i) == i[1]

\* the pieces of s between the occurrences of the byte sep
RECURSIVE Split(_, _)
Split(s, sep) ==
    IF \A i \in 1..Len(s) : s[i] # sep THEN <<s>>
    ELSE LET i == CHOOSE j \in 1..Len(s) :
                      s[j] = sep /\ \A k \in 1..(j - 1) : s[k] # sep
         IN  <<SubSeq(s, 1, i - 1)>> \o Split(SubSeq(s, i + 1, Len(s)), sep)

NoIp == [ok |-> FALSE, ip |-> <<>>]

IsDigit(b) == b >= 48 /\ b <= 57

RECURSIVE DecValue(_)
DecValue(d) ==
    IF Len(d) = 0 THEN 0
    ELSE DecValue(SubSeq(d, 1, Len(d) - 1)) * 10 + (d[Len(d)] - 48)

\* one number of a dotted IPv4 text: 1 to 3 digits, no leading zero, at
\* most 255
IsOctet(d) ==
    /\ Len(d) \in 1..3
    /\ \A i \in 1..Len(d) : IsDigit(d[i])
    /\ Len(d) > 1 => d[1] # 48
    /\ DecValue(d) <= 255

\* Ipv4Addr::from_str: four numbers separated by dots
ParseIpv4(s) ==
    LET parts == Split(s, 46) IN
    IF Len(parts) = 4 /\ \A i \in 1..4 : IsOctet(parts[i])
    THEN [ok |-> TRUE, ip |-> [i \in 1..4 |-> DecValue(parts[i])]]
    ELSE NoIp

\* the value of a hexadecimal digit, -1 for any other byte
HexDigit(b) ==
    CASE b >= 48 /\ b <= 57  -> b - 48
      [] b >= 97 /\ b <= 102 -> b - 87
      [] b >= 65 /\ b <= 70  -> b - 55
      [] OTHER               -> -1

\* one group of an IPv6 text: 1 to 4 hexadecimal digits
IsHexGroup(g) ==
    /\ Len(g) \in 1..4
    /\ \A i \in 1..Len(g) : HexDigit(g[i]) >= 0

RECURSIVE HexValue(_)
HexValue(g) ==
    IF Len(g) = 0 THEN 0
    ELSE HexValue(SubSeq(g, 1, Len(g) - 1)) * 16 + HexDigit(g[Len(g)])

\* the 16-bit groups of the first n colon-separated pieces
HexGroups(parts, n) ==
    IF \A i \in 1..n : IsHexGroup(parts[i])
    THEN [ok |-> TRUE, groups |-> [i \in 1..n |-> HexValue(parts[i])]]
    ELSE [ok |-> FALSE, groups |-> <<>>]

\* the groups before a closing dotted IPv4 text, and the two groups it
\* stands for
WithIpv4(hex, ip) ==
    IF hex.ok
    THEN [ok |-> TRUE,
          groups |-> hex.groups \o <<ip[1] * 256 + ip[2], ip[3] * 256 + ip[4]>>]
    ELSE hex

\* the groups of pieces whose last piece parsed as the IPv4 address `last`,
\* or did not
GroupsEnding(parts, last) ==
    IF last.ok THEN WithIpv4(HexGroups(parts, Len(parts) - 1), last.ip)
               ELSE HexGroups(parts, Len(parts))

\* the 16-bit groups of colon-separated pieces; where v4 is allowed the last
\* piece may be a dotted IPv4 text, which stands for two groups
GroupsOf(parts, v4) ==
    GroupsEnding(parts, IF v4 THEN ParseIpv4(parts[Len(parts)]) ELSE NoIp)

\* the colon-separated groups of a possibly empty side of `::`
SideGroups(side, v4) ==
    IF Len(side) = 0 THEN [ok |-> TRUE, groups |-> <<>>]
    ELSE GroupsOf(Split(side, 58), v4)

\* the 16 bytes of eight groups
GroupBytes(g) ==
    [k \in 1..16 |-> IF k % 2 = 1 THEN g[(k + 1) \div 2] \div 256
                                  ELSE g[k \div 2] % 256]

\* an address written without `::`: exactly eight groups
Ipv6Whole(g) ==
    IF g.ok /\ Len(g.groups) = 8
    THEN [ok |-> TRUE, ip |-> GroupBytes(g.groups)] ELSE NoIp

\* an address written with one `::`: the groups before it, one or more zero
\* groups, the groups after it
Ipv6Compressed(head, tail) ==
    IF head.ok /\ tail.ok /\ Len(head.groups) + Len(tail.groups) <= 7
    THEN [ok |-> TRUE,
          ip |-> GroupBytes(head.groups
                            \o [k \in 1..(8 - Len(head.groups) - Len(tail.groups)) |-> 0]
                            \o tail.groups)]
    ELSE NoIp

\* the address whose `::` is at the places dc of the text; a dotted IPv4
\* text may close the address, never the part before `::`
Ipv6With(s, dc) ==
    IF dc = {} THEN Ipv6Whole(GroupsOf(Split(s, 58), TRUE))
    ELSE IF Cardinality(dc) > 1 THEN NoIp
    ELSE Ipv6Compressed(SideGroups(SubSeq(s, 1, (CHOOSE j \in dc : TRUE) - 1), FALSE),
                        SideGroups(SubSeq(s, (CHOOSE j \in dc : TRUE) + 2, Len(s)), TRUE))

\* Ipv6Addr::from_str: eight groups, or fewer with one `::` standing for
\* one or more zero groups; a dotted IPv4 text may close the address
ParseIpv6(s) ==
    Ipv6With(s, {i \in 1..(Len(s) - 1) : s[i] = 58 /\ s[i + 1] = 58})

\* str::parse::<IpAddr>: an IPv4 text (4 bytes) or an IPv6 text (16 bytes)
ParseIp(s) ==
    IF ParseIpv4(s).ok THEN ParseIpv4(s) ELSE ParseIpv6(s)

NoPeer == [peer_id |-> <<>>, address |-> [ip |-> <<>>, port |-> 0]]

\* map.get(key).and_then(Value::integer) and .and_then(Value::bstring_utf8)
GetInteger(map, key) ==
    IF IsInteger(map[key]) THEN [some |-> TRUE, v |-> map[key].v]
                           ELSE [some |-> FALSE, v |-> I64(0)]

GetUtf8(map, key) ==
    IF IsUtf8(map[key]) THEN [some |-> TRUE, v |-> map[key].v]
                        ELSE [some |-> FALSE, v |-> <<>>]

\* PeerInfo::from_value: one entry of a list of peer dictionaries.
\* r is "ok", "err" (an Err(String)) or "panic" (copy_from_slice on a
\* slice whose length is not that of the array)
PeerInfo_from_value(val) ==
    IF ~IsDict(val) THEN [r |-> "err", peer |-> NoPeer]
    ELSE
    LET map  == val.v
        pid  == map["peer id"]
        ip   == GetUtf8(map, "ip")
        port == GetInteger(map, "port")
    IN
    IF ~IsBString(pid) THEN [r |-> "err", peer |-> NoPeer]
    ELSE IF Len(pid.v) # PeerIdLen THEN [r |-> "panic", peer |-> NoPeer]
    ELSE IF ~ip.some THEN [r |-> "err", peer |-> NoPeer]
    ELSE IF ~ParseIp(ip.v).ok THEN [r |-> "err", peer |-> NoPeer]
    ELSE IF ~port.some THEN [r |-> "err", peer |-> NoPeer]
    ELSE [r |-> "ok",
          peer |-> [peer_id |-> pid.v,
                    address |-> [ip |-> ParseIp(ip.v).ip, port |-> AsU16(port.v)]]]

\* peers.iter().map(PeerInfo::from_value).collect::<Result<Vec<_>, _>>():
\* entries are decoded in order and the first one that fails ends the decode
RECURSIVE CollectPeers(_)
CollectPeers(items) ==
    IF Len(items) = 0 THEN [r |-> "ok", peers |-> <<>>]
    ELSE
    LET first == PeerInfo_from_value(Head(items)) IN
    IF first.r # "ok" THEN [r |-> first.r, peers |-> <<>>]
    ELSE
    LET rest == CollectPeers(Tail(items)) IN
    IF rest.r # "ok" THEN rest
    ELSE [r |-> "ok", peers |-> <<first.peer>> \o rest.peers]

\* slice::chunks(n): pieces of n elements, the last one possibly shorter
Chunks(bytes, n) ==
    [k \in 1..((Len(bytes) + n - 1) \div n) |->
        SubSeq(bytes, (k - 1) * n + 1,
               IF k * n < Len(bytes) THEN k * n ELSE Len(bytes))]

\* the closure applied to each chunk of a compact peers string by
\* TrackerResponse::from_value; indexing past the end of the chunk panics
CompactPeer(peer_slice) ==
    IF Len(peer_slice) < 4 THEN [r |-> "panic", peer |-> NoPeer]
    ELSE [r |-> "ok",
          peer |-> [peer_id |-> <<>>,
                    address |-> [ip   |-> SubSeq(peer_slice, 1, 4),
                                 port |-> peer_slice[1] * 256 + peer_slice[2]]]]

\* the closure applied to each chunk by PeerInfo::from_compact (peer module)
from_compact_chunk(chunk) ==
    IF Len(chunk) < ChunkLen THEN [r |-> "panic", peer |-> NoPeer]
    ELSE [r |-> "ok",
          peer |-> [peer_id |-> <<>>,
                    address |-> [ip   |-> SubSeq(chunk, 1, 4),
                                 port |-> chunk[5] * 256 + chunk[6]]]]

\* chunks(6).map(closure).collect(): a panic in any chunk aborts the decode
CollectChunks(results) ==
    IF \E k \in DOMAIN results : results[k].r = "panic"
    THEN [r |-> "panic", peers |-> <<>>]
    ELSE [r |-> "ok", peers |-> [k \in DOMAIN results |-> results[k].peer]]

CompactPeers(bytes) ==
    LET chunks == Chunks(bytes, ChunkLen) IN
    CollectChunks([k \in DOMAIN chunks |-> CompactPeer(chunks[k])])

from_compact(bytes) ==
    LET chunks == Chunks(bytes, ChunkLen) IN
    CollectChunks([k \in DOMAIN chunks |-> from_compact_chunk(chunks[k])])

NoPayload ==
    [interval |-> <<0, 0>>, min_interval |-> [some |-> FALSE, v |-> <<0, 0>>],
     tracker_id |-> [some |-> FALSE, v |-> <<>>],
     complete |-> <<0, 0>>, incomplete |-> <<0, 0>>, peers |-> <<>>]

FromValueErr(msg) == [r |-> "err",   variant |-> "", msg |-> msg, payload |-> NoPayload]
FromValuePanic    == [r |-> "panic", variant |-> "", msg |-> <<>>, payload |-> NoPayload]

\* the peers match of TrackerResponse::from_value
DecodePeers(val) ==
    CASE val.t = "absent"  -> [r |-> "err", peers |-> <<>>]
      [] val.t = "list"    -> CollectPeers(val.v)
      [] val.t = "bstring" -> CompactPeers(val.v)
      [] OTHER             -> [r |-> "err", peers |-> <<>>]

\* (variant: a missing mandatory integer is read as zero)
MandatoryIntegerDefaulted(map, key) ==
    [some |-> TRUE, v |-> GetInteger(map, key).v]

\* interval, complete, incomplete: .and_then(Value::integer)...ok_or(..)?
MandatoryInteger(map, key) ==
    GetInteger(map, key)

\* (variant: the warning is dropped)
ClassifyNoWarning(warning_msg, payload) ==
    [r |-> "ok", variant |-> "Success", msg |-> <<>>, payload |-> payload]

\* match warning_msg { Some(msg) => Warning(msg, res), None => Success(res) }
Classify(warning_msg, payload) ==
    IF warning_msg.some
    THEN [r |-> "ok", variant |-> "Warning", msg |-> warning_msg.v, payload |-> payload]
    ELSE [r |-> "ok", variant |-> "Success", msg |-> <<>>, payload |-> payload]

\* TrackerResponse::from_value.  The text of an error raised while decoding
\* peers is not kept (announce discards every error text).
TrackerResponse_from_value(val) ==
    IF ~IsDict(val) THEN FromValueErr(Utf8("Not a dictionary"))
    ELSE
    LET map          == val.v
        failure      == map["failure reason"]
        warning_msg  == GetUtf8(map, "warning message")
        interval     == MandatoryInteger(map, "interval")
        min_interval == GetInteger(map, "min interval")
        tracker_id   == GetUtf8(map, "tracker id")
        complete     == MandatoryInteger(map, "complete")
        incomplete   == MandatoryInteger(map, "incomplete")
        peers        == DecodePeers(map["peers"])
    IN
    IF failure.t # "absent"
    THEN FromValueErr(IF IsUtf8(failure) THEN failure.v ELSE Utf8("unknown failure reason"))
    ELSE IF ~interval.some   THEN FromValueErr(Utf8("Missing key: interval"))
    ELSE IF ~complete.some   THEN FromValueErr(Utf8("Missing key: complete"))
    ELSE IF ~incomplete.some THEN FromValueErr(Utf8("Missing key: incomplete"))
    ELSE IF peers.r = "err"   THEN FromValueErr(<<>>)
    ELSE IF peers.r = "panic" THEN FromValuePanic
    ELSE Classify(warning_msg,
                  [interval     |-> AsU32(interval.v),
                   min_interval |-> [some |-> min_interval.some, v |-> AsU32(min_interval.v)],
                   tracker_id   |-> tracker_id,
                   complete     |-> AsU32(complete.v),
                   incomplete   |-> AsU32(incomplete.v),
                   peers        |-> peers.peers])

\* the body of a response: a bencoded value, or bytes that are not bencode
Garbage == [t |-> "garbage", v |-> 0]

\* Value::decode(&body)
DecodeOk(body) == body.t # "garbage"

\* what a call returned; body tells how far the response body was taken:
\* "unread", "read" (concatenated) or "decoded" (bdecoded)
Returned(out, code, variant, msg, payload, body) ==
    [out |-> out, code |-> code, variant |-> variant, msg |-> msg,
     payload |-> payload, body |-> body]

\* (variant: every status is taken for 200 OK)
StatusRejectedNever(status) ==
    FALSE

\* response.status() != StatusCode::OK
StatusRejected(status) ==
    status # StatusOK

\* the call is suspended in an await!: "sent" at await!(req_builder.send()),
\* "body" at await!(response.into_body()...concat2())
Suspended(at) == [out |-> at]

\* announce when await!(req_builder.send()) resumes, up to the next await!.
\* r.transport is "ok", "send_error" (the request failed) or "body_error"
\* (reading the body failed)
AfterSend(r) ==
    IF r.transport = "send_error"
    THEN Returned("ConnectionError", 0, "", <<>>, NoPayload, "unread")
    ELSE IF StatusRejected(r.status)
    THEN Returned("ResponseError", r.status, "", <<>>, NoPayload, "unread")
    ELSE Suspended("body")

\* announce when the await! on the body resumes, to its end
AfterBody(r) ==
    IF r.transport = "body_error"
    THEN Returned("ConnectionError", 0, "", <<>>, NoPayload, "unread")
    ELSE IF ~DecodeOk(r.body)
    THEN Returned("DecodeError", 0, "", <<>>, NoPayload, "read")
    ELSE
    LET decoded == TrackerResponse_from_value(r.body) IN
    CASE decoded.r = "err"   -> Returned("InvalidResponse", 0, "", <<>>, NoPayload, "decoded")
      [] decoded.r = "panic" -> Returned("panic", 0, "", <<>>, NoPayload, "decoded")
      [] OTHER               -> Returned("Ok", 0, decoded.variant, decoded.msg,
                                         decoded.payload, "decoded")

\* what a whole call of announce returns on the exchange r
announce(r) ==
    IF AfterSend(r).out = "body" THEN AfterBody(r) ELSE AfterSend(r)

(***************************************************************************)
(* The responses an announce call is tried on.                             *)
(***************************************************************************)

TrackerKeys == {"failure reason", "warning message", "interval", "min interval",
                "tracker id", "complete", "incomplete", "peers"}

GoodPeerId  == [i \in 1..PeerIdLen |-> 65]
ShortPeerId == <<65, 66, 67>>

PeerDict(pid, ip, port) ==
    Dict([k \in {"peer id", "ip", "port"} |->
            CASE k = "peer id" -> pid
              [] k = "ip"      -> ip
              [] OTHER         -> port])

GoodPeer  == PeerDict(Bytes(GoodPeerId), Text("127.0.0.1"), Integer(I64(6881)))
OtherPeer == PeerDict(Bytes(GoodPeerId), Text("10.0.0.2"),  Integer(I64(6881)))

PeerEntries ==
    {PeerDict(pid, ip, port) :
        pid  \in {Absent, Bytes(GoodPeerId), Bytes(ShortPeerId), Integer(I64(1)),
                  Text("-BT0001-abcdefghijkl")},
        ip   \in {Absent, Text("127.0.0.1"), Text("nope"), Integer(I64(1)), Text("::1")},
        port \in {Absent, Integer(I64(6881)), Text("6881"), Integer(I64Plus16(4464))}}
    \cup {Integer(I64(1)), OtherPeer}

\* 127.0.0.1:6881 and 10.0.0.2:6881 in the compact form
CompactGood  == <<127, 0, 0, 1, 26, 225>>
CompactOther == <<10, 0, 0, 2, 26, 225>>

PeersValues ==
    {Absent, Integer(I64(1)), Dict([k \in {"ip"} |-> Text("127.0.0.1")])}
    \cup {Text("abcdef"),
          Bytes(<<>>), Bytes(CompactGood), Bytes(CompactGood \o CompactOther),
          Bytes(<<127, 0, 0>>), Bytes(<<127, 0, 0, 1, 26>>),
          Bytes(CompactGood \o <<10>>), Bytes(CompactGood \o <<10, 0, 0, 2>>)}
    \cup {List(<<>>), List(<<GoodPeer, OtherPeer>>)}
    \cup {List(<<e>>) : e \in PeerEntries}
    \cup {List(<<GoodPeer, e>>) : e \in PeerEntries}

TrackerDict(failure, warning, interval, min_interval, tracker_id, complete, incomplete, peers) ==
    Dict([k \in TrackerKeys |->
            CASE k = "failure reason"  -> failure
              [] k = "warning message" -> warning
              [] k = "interval"        -> interval
              [] k = "min interval"    -> min_interval
              [] k = "tracker id"      -> tracker_id
              [] k = "complete"        -> complete
              [] k = "incomplete"      -> incomplete
              [] OTHER                 -> peers])

DictBodies ==
    {TrackerDict(f, w, i, m, t, c, n, p) :
        f \in {Absent, Text("torrent unknown"), Integer(I64(1))},
        w \in {Absent, Text("slow down"), Integer(I64(1)), Bytes(<<255, 254>>)},
        i \in {Absent, Integer(I64(1800)), Text("1800"),
                Integer(MinusOne), Integer(I64Plus32(1800))},
        m \in {Absent, Integer(I64(900)), Text("900")},
        t \in {Absent, Text("tid")},
        c \in {Absent, Integer(I64(5))},
        n \in {Absent, Integer(I64(3))},
        p \in PeersValues}

GoodBody ==
    TrackerDict(Absent, Absent, Integer(I64(1800)), Absent, Absent,
                Integer(I64(5)), Integer(I64(3)), Bytes(CompactGood))

Responses ==
    {[transport |-> "send_error", status |-> 0, body |-> Garbage]}
    \cup {[transport |-> tr, status |-> s, body |-> b] :
            tr \in {"ok", "body_error"}, s \in {404, 500}, b \in {Garbage, GoodBody}}
    \cup {[transport |-> "body_error", status |-> StatusOK, body |-> GoodBody]}
    \cup {[transport |-> "ok", status |-> StatusOK, body |-> b] :
            b \in {Garbage, Integer(I64(1))} \cup DictBodies}

TrackerInit ==
    /\ PeerInit
    /\ req \in Responses
    /\ res = NoResult

\* announce is called: the request is built and sent, and the call is
\* suspended until the response head arrives or the request fails
AnnounceSend ==
    /\ req.transport # "none"
    /\ res.out = "none"
    /\ res' = Suspended("sent")
    /\ UNCHANGED <<req, peerVars>>

\* the first await! resumes: `?`, then the status test; the call returns or
\* is suspended again while the body is read
AnnounceHead ==
    /\ res.out = "sent"
    /\ res' = AfterSend(req)
    /\ UNCHANGED <<req, peerVars>>

\* the second await! resumes: `?`, Value::decode, from_value
AnnounceBody ==
    /\ res.out = "body"
    /\ res' = AfterBody(req)
    /\ UNCHANGED <<req, peerVars>>

\* one call of announce on the response, step by step
Announce == AnnounceSend \/ AnnounceHead \/ AnnounceBody

\* PeerInfo::from_compact applied to the compact peers string of the response
FromCompact ==
    /\ req.transport = "ok"
    /\ res.out = "none"
    /\ IsDict(req.body)
    /\ IsBString(req.body.v["peers"])
    /\ LET decoded == from_compact(req.body.v["peers"].v) IN
       res' = Returned("from_compact", 0, decoded.r, <<>>,
                       [NoPayload EXCEPT !.peers = decoded.peers], "unread")
    /\ UNCHANGED <<req, peerVars>>

\* PeerInfo::from_value of the peer module: the same decoder as the
\* tracker's, line for line
peer_PeerInfo_from_value(val) ==
    PeerInfo_from_value(val)

\* PeerInfo::from_value (peer module) applied to the first entry of the
\* peers list of the response
FromValue ==
    /\ req.transport = "ok"
    /\ res.out = "none"
    /\ IsDict(req.body)
    /\ req.body.v["peers"].t = "list"
    /\ Len(req.body.v["peers"].v) >= 1
    /\ LET decoded == peer_PeerInfo_from_value(req.body.v["peers"].v[1]) IN
       res' = Returned("from_value", 0, decoded.r, <<>>,
                       [NoPayload EXCEPT !.peers = <<decoded.peer>>], "unread")
    /\ UNCHANGED <<req, peerVars>>

TrackerNext == Announce \/ FromCompact \/ FromValue

TrackerSpec == TrackerInit /\ [][TrackerNext]_vars

TrackerTypeOK ==
    res.out \in {"none", "sent", "body", "Ok", "ConnectionError", "ResponseError", "DecodeError",
                 "InvalidResponse", "panic", "from_compact", "from_value"}

(***************************************************************************)
(* Views of an announce call used by the tracker properties.               *)
(***************************************************************************)

\* announce has returned (or aborted)
Announced == res.out \notin {"none", "sent", "body", "from_compact", "from_value"}

\* the response was a 200 whose body decoded to a dictionary
Decoded200 ==
    /\ req.transport = "ok"
    /\ req.status = StatusOK
    /\ IsDict(req.body)

\* the value under a key of the response dictionary (Absent if none)
Field(key) == req.body.v[key]

(* C12: for every decoded 200 response whose dictionary holds the key      *)
(* failure reason, announce returns Ok(TrackerResponse::Failure(reason))   *)
(* carrying that reason, whatever the other keys.                          *)
C12_FailureReasonIsFailure ==
    (Announced /\ Decoded200 /\ Field("failure reason").t # "absent") =>
        /\ res.out = "Ok"
        /\ res.variant = "Failure"
        /\ IsUtf8(Field("failure reason")) => res.msg = Field("failure reason").v

\* the mandatory integers are there and no failure is reported
MandatoryIntegersPresent ==
    /\ Field("failure reason").t = "absent"
    /\ IsInteger(Field("interval"))
    /\ IsInteger(Field("complete"))
    /\ IsInteger(Field("incomplete"))

\* the compact peers string of the response is made of whole 6-byte entries
WholeCompactPeers ==
    /\ IsBString(Field("peers"))
    /\ Len(Field("peers").v) % ChunkLen = 0

\* the decimal digits of a byte
DecText(n) ==
    IF n < 10 THEN <<48 + n>>
    ELSE IF n < 100 THEN <<48 + (n \div 10), 48 + (n % 10)>>
    ELSE <<48 + (n \div 100), 48 + ((n \div 10) % 10), 48 + (n % 10)>>

\* Ipv4Addr::to_string: the dotted text of a 4-byte address
IpText(ip) ==
    DecText(ip[1]) \o <<46>> \o DecText(ip[2]) \o <<46>>
        \o DecText(ip[3]) \o <<46>> \o DecText(ip[4])

\* the list of dictionaries naming the endpoints of a compact string:
\* ip = bytes 1..4, port = bytes 5..6 in network order
DictForm(bytes) ==
    LET chunks == Chunks(bytes, ChunkLen) IN
    List([k \in DOMAIN chunks |->
            PeerDict(Bytes(GoodPeerId),
                     BString(IpText(SubSeq(chunks[k], 1, 4))),
                     Integer(I64(chunks[k][5] * 256 + chunks[k][6])))])

AddressSet(peers) == {peers[k].address : k \in DOMAIN peers}

(* C13: when peers is a byte string, each 6-byte chunk decodes to one peer *)
(* whose IPv4 address is the chunk's first 4 bytes and whose port is the   *)
(* big-endian value of its last 2 bytes, with no peer id; the compact list *)
(* and the list of dictionaries naming the same endpoints decode to the    *)
(* same set of addresses.                                                  *)
C13_CompactPeersDecoded ==
    (Announced /\ Decoded200 /\ MandatoryIntegersPresent /\ WholeCompactPeers) =>
        LET chunks == Chunks(Field("peers").v, ChunkLen)
            peers  == res.payload.peers
        IN
        /\ res.out = "Ok"
        /\ Len(peers) = Len(chunks)
        /\ \A k \in DOMAIN chunks :
              /\ peers[k].peer_id = <<>>
              /\ peers[k].address.ip = SubSeq(chunks[k], 1, 4)
              /\ peers[k].address.port = chunks[k][5] * 256 + chunks[k][6]
        /\ AddressSet(peers) =
              AddressSet(CollectPeers(DictForm(Field("peers").v).v).peers)

\* a mandatory key is missing, or peers has neither of the two shapes
MandatoryMissing ==
    \/ Field("interval").t = "absent"
    \/ Field("complete").t = "absent"
    \/ Field("incomplete").t = "absent"
    \/ Field("peers").t = "absent"
    \/ Field("peers").t \notin {"list", "bstring"}

(* C14: for a response without failure reason, if interval, complete,      *)
(* incomplete or peers is missing, or peers is neither a list nor a byte   *)
(* string, announce returns InvalidResponse, never a Success or Warning    *)
(* with defaulted fields.                                                  *)
C14_MissingFieldInvalid ==
    (Announced /\ Decoded200 /\ Field("failure reason").t = "absent" /\ MandatoryMissing) =>
        res.out = "InvalidResponse"

C14_Witness ==
    /\ Announced /\ Decoded200
    /\ Field("failure reason").t = "absent"
    /\ IsInteger(Field("interval")) /\ IsInteger(Field("complete"))
    /\ Field("incomplete").t = "absent"
    /\ IsBString(Field("peers")) /\ Field("peers").v = CompactGood
    /\ res.out = "InvalidResponse"

\* an entry of a peers list that is not a peer address: not a dictionary,
\* peer id missing, mistyped or not 20 bytes long, ip missing, mistyped or
\* unparsable, port missing or mistyped
UndecodableEntry(e) ==
    \/ ~IsDict(e)
    \/ /\ IsDict(e)
       /\ \/ ~IsBString(e.v["peer id"])
          \/ IsBString(e.v["peer id"]) /\ Len(e.v["peer id"].v) # PeerIdLen
          \/ ~IsUtf8(e.v["ip"])
          \/ IsUtf8(e.v["ip"]) /\ ~ParseIp(e.v["ip"].v).ok
          \/ ~IsInteger(e.v["port"])

(* C15: when peers is a list of dictionaries, any entry that cannot be     *)
(* decoded as a peer address makes announce return InvalidResponse; the    *)
(* decode never aborts and never returns a partial peer list.              *)
C15_BadPeerEntryInvalid ==
    (/\ Announced /\ Decoded200 /\ MandatoryIntegersPresent
     /\ Field("peers").t = "list"
     /\ \E k \in DOMAIN Field("peers").v : UndecodableEntry(Field("peers").v[k])) =>
        res.out = "InvalidResponse"

\* the peers value is well formed: a list of decodable entries, or a
\* compact string of whole entries
ValidPeers ==
    \/ /\ Field("peers").t = "list"
       /\ \A k \in DOMAIN Field("peers").v : ~UndecodableEntry(Field("peers").v[k])
    \/ WholeCompactPeers

\* number of peers the response names
PeerCount ==
    IF Field("peers").t = "list" THEN Len(Field("peers").v)
    ELSE Len(Field("peers").v) \div ChunkLen

\* the response with the warning message key taken out
WithoutWarning ==
    [req EXCEPT !.body.v["warning message"] = Absent]

\* announce returned Warning carrying the message and every decoded field,
\* and returns Success with the same payload once the warning is taken out
WarningCarriesPayload ==
    LET p == res.payload
        s == announce(WithoutWarning)
    IN
    /\ res.out = "Ok" /\ res.variant = "Warning"
    /\ IsUtf8(Field("warning message")) => res.msg = Field("warning message").v
    /\ p.interval[1] = Field("interval").v[1] /\ p.interval[2] = Field("interval").v[2]
    /\ p.complete[1] = Field("complete").v[1] /\ p.complete[2] = Field("complete").v[2]
    /\ p.incomplete[1] = Field("incomplete").v[1]
    /\ p.incomplete[2] = Field("incomplete").v[2]
    /\ p.min_interval.some = IsInteger(Field("min interval"))
    /\ IsInteger(Field("min interval")) =>
          /\ p.min_interval.v[1] = Field("min interval").v[1]
          /\ p.min_interval.v[2] = Field("min interval").v[2]
    /\ p.tracker_id.some = IsUtf8(Field("tracker id"))
    /\ IsUtf8(Field("tracker id")) => p.tracker_id.v = Field("tracker id").v
    /\ Len(p.peers) = PeerCount
    /\ Field("peers").t = "list" =>
          \A k \in DOMAIN p.peers :
              /\ p.peers[k].peer_id = Field("peers").v[k].v["peer id"].v
              /\ p.peers[k].address.ip = ParseIp(Field("peers").v[k].v["ip"].v).ip
    /\ s.out = "Ok" /\ s.variant = "Success" /\ s.payload = p

(* C16 as stated: a response with a warning message key and all mandatory  *)
(* fields valid is classified Warning(msg, response) whose payload holds   *)
(* every decoded field; the same response without the key is classified    *)
(* Success with the same payload.                                          *)
C16_AnyWarningKey ==
    (/\ Announced /\ Decoded200 /\ MandatoryIntegersPresent /\ ValidPeers
     /\ Field("warning message").t # "absent") =>
        WarningCarriesPayload

(* C16 amended: the same, for a warning message whose value is a UTF-8     *)
(* byte string; with any other value under the key the response is         *)
(* classified Success.                                                     *)
C16_TextWarningClassified ==
    /\ (/\ Announced /\ Decoded200 /\ MandatoryIntegersPresent /\ ValidPeers
        /\ IsUtf8(Field("warning message"))) =>
           WarningCarriesPayload
    /\ (/\ Announced /\ Decoded200 /\ MandatoryIntegersPresent /\ ValidPeers
        /\ ~IsUtf8(Field("warning message"))) =>
           (res.out = "Ok" /\ res.variant = "Success")

C16_Witness ==
    /\ Announced /\ Decoded200 /\ MandatoryIntegersPresent
    /\ IsUtf8(Field("warning message"))
    /\ IsInteger(Field("min interval")) /\ IsUtf8(Field("tracker id"))
    /\ Field("peers").t = "list" /\ Len(Field("peers").v) = 2
    /\ res.out = "Ok" /\ res.variant = "Warning"
    /\ Len(res.payload.peers) = 2

(* C17: when the HTTP status is not 200 OK, announce returns               *)
(* ResponseError(status) with that status and the body is neither read nor *)
(* decoded, even if it holds a well-formed tracker response; a transport   *)
(* failure returns ConnectionError and an undecodable 200 body returns     *)
(* DecodeError.                                                            *)
C17_StatusAndTransportErrors ==
    Announced =>
        /\ (req.transport # "send_error" /\ req.status # StatusOK) =>
              /\ res.out = "ResponseError"
              /\ res.code = req.status
              /\ res.body = "unread"
        /\ req.transport = "send_error" => res.out = "ConnectionError"
        /\ (req.transport = "body_error" /\ req.status = StatusOK) =>
              res.out = "ConnectionError"
        /\ (req.transport = "ok" /\ req.status = StatusOK /\ ~DecodeOk(req.body)) =>
              res.out = "DecodeError"

C17_Witness ==
    /\ Announced
    /\ req.transport = "ok"
    /\ req.status = 404
    /\ IsDict(req.body) /\ MandatoryIntegersPresent /\ WholeCompactPeers
    /\ res.out = "ResponseError" /\ res.code = 404 /\ res.body = "unread"

(***************************************************************************)
(* Peer handles: identity.                                                 *)
(***************************************************************************)

\* the Peer built for connection c by Peer::new(peer_id, tx): the remote's
\* peer id and the sending end of the connection's command channel
PeerHandle(c) ==
    [peer_id |-> TheirPeerId(c),
     tx      |-> [chan |-> c, receiver |-> ReceiverAlive(c), queued |-> cmdq[c]]]

\* (variant: equality looks at the channel as well)
eqWithChannel(self, other) ==
    self.peer_id = other.peer_id /\ self.tx = other.tx

\* impl PartialEq for Peer
eq(self, other) ==
    self.peer_id = other.peer_id

\* impl Hash for Peer: what is fed to the hasher
hash(self) ==
    <<self.peer_id>>

(* C18: two Peer handles compare equal and hash alike exactly when their   *)
(* peer ids are equal, whatever the state or identity of their channels.   *)
C18_EqualityByPeerId ==
    \A c, d \in Conns :
        (handle[c] # "none" /\ handle[d] # "none") =>
            ((eq(PeerHandle(c), PeerHandle(d)) /\ hash(PeerHandle(c)) = hash(PeerHandle(d)))
                <=> TheirPeerId(c) = TheirPeerId(d))

C18_Witness ==
    \E c, d \in Conns :
        /\ c # d
        /\ handle[c] # "none" /\ handle[d] # "none"
        /\ TheirPeerId(c) = TheirPeerId(d)
        /\ ReceiverAlive(c) /\ ~ReceiverAlive(d)
        /\ eq(PeerHandle(c), PeerHandle(d))

(***************************************************************************)
(* A consumer of the lifecycle channel.                                    *)
(***************************************************************************)

\* the set a consumer holds after taking the events in order: the peer of a
\* Started is inserted (peers are equal when their ids are), the id of a
\* Stopped is removed
RECURSIVE LiveSet(_)
LiveSet(evs) ==
    IF Len(evs) = 0 THEN {}
    ELSE LET before == LiveSet(SubSeq(evs, 1, Len(evs) - 1))
             e      == evs[Len(evs)]
         IN  IF e.ev = "Started" THEN before \cup {e.id} ELSE before \ {e.id}

\* the peer ids of the accepted connections that are bridging
BridgingIds ==
    {TheirPeerId(c) : c \in {d \in Conns : kind[d] = "accept" /\ pc[d] = "Bridging"}}

(* C19: a consumer that tracks the live peer set from the lifecycle        *)
(* channel alone holds, once it has drained the channel, exactly the peer  *)
(* ids that have a connection in Bridging, for every interleaving,         *)
(* including two concurrent connections with the same peer id.             *)
C19_LiveSetIsBridging ==
    LiveSet(lifecycle) = BridgingIds

(* C20: on the inbound path, Started(Peer) of a connection is sent on the  *)
(* lifecycle channel before any message decoded from that connection is    *)
(* put on the shared consumer channel, and Stopped(peer_id) is sent after  *)
(* the last such message: whenever a message of the connection is put on   *)
(* the channel, its Started has been sent and its Stopped has not.         *)
C20_StartedFirstStoppedLast ==
    [][\A c \in Conns :
          (kind[c] = "accept" /\ Forwarded(c)' # Forwarded(c)) =>
              /\ Len(EventsOf(c, "Started")) = 1
              /\ EventsOf(c, "Stopped") = <<>>
              /\ EventsOf(c, "Stopped")' = <<>>]_vars

C20_Witness ==
    \E c \in Conns :
        /\ kind[c] = "accept"
        /\ Len(Forwarded(c)) >= 1
        /\ Len(EventsOf(c, "Started")) = 1
        /\ Len(EventsOf(c, "Stopped")) = 1
        /\ pc[c] = "Closed"

(***************************************************************************)
(* The receiver returned by connect.                                       *)
(***************************************************************************)

\* the transport failed or the handshake failed: the task of c ended
\* before Bridging
FailedBeforeBridging(c) == pc[c] = "Closed" /\ ~entered[c]

\* the remote of c has shown that no valid handshake will come: its first
\* frame is not a handshake for the expected info hash, or it closed the
\* stream without sending one
HandshakeDoomed(c) ==
    /\ ~GoodHandshakeSent(c)
    /\ (sent[c] # <<>> \/ remoteClosed[c])

(* C21: on the outbound path the receiver returned by connect yields a     *)
(* Peer exactly when the transport connected and the handshake succeeded;  *)
(* on a transport or handshake failure it resolves as cancelled instead of *)
(* staying pending forever, and no message of that connection is ever      *)
(* forwarded to the shared channel.                                        *)
C21_ReceiverResolves ==
    /\ [](\A c \in Conns :
            kind[c] = "connect" =>
                /\ peerRx[c] = "ready" <=> entered[c]
                /\ FailedBeforeBridging(c) => peerRx[c] = "canceled"
                /\ ~entered[c] => Forwarded(c) = <<>>)
    /\ \A c \in Conns :
          (kind[c] = "connect" /\ HandshakeDoomed(c)) ~> (peerRx[c] = "canceled")

C21_Witness ==
    \E c, d \in Conns :
        /\ kind[c] = "connect" /\ kind[d] = "connect"
        /\ FailedBeforeBridging(c) /\ HandshakeDoomed(c)
        /\ peerRx[c] = "canceled"
        /\ entered[d] /\ peerRx[d] = "ready"

(* C22: decoding a compact peers byte string of any length, including      *)
(* lengths that are not a multiple of 6 and the empty string, ends with a  *)
(* value (a peer list or InvalidResponse) and never aborts, in             *)
(* TrackerResponse::from_value and in PeerInfo::from_compact alike.        *)
C22_CompactNeverAborts ==
    /\ (/\ Announced /\ Decoded200 /\ MandatoryIntegersPresent
        /\ IsBString(Field("peers"))) =>
           res.out \in {"Ok", "InvalidResponse"}
    /\ res.out = "from_compact" => res.variant = "ok"

\* the value of a stored u32 and of a stored u16, as a 64-bit integer
Widen32(u) == <<u[1], u[2], 0, 0>>
Widen16(u) == <<u, 0, 0, 0>>

(* C23: whenever announce returns Success or Warning, the payload's        *)
(* interval, min_interval, complete and incomplete, and the port of every  *)
(* dictionary-form peer, equal the integers carried in the response; an    *)
(* integer outside the field's range is never stored as a different,       *)
(* wrapped value.  The same for the port decoded by the peer module.       *)
C23_IntegersStoredExactly ==
    /\ (Announced /\ res.out = "Ok") =>
          LET p == res.payload IN
          /\ Widen32(p.interval) = Field("interval").v
          /\ Widen32(p.complete) = Field("complete").v
          /\ Widen32(p.incomplete) = Field("incomplete").v
          /\ p.min_interval.some => Widen32(p.min_interval.v) = Field("min interval").v
          /\ Field("peers").t = "list" =>
                \A k \in DOMAIN p.peers :
                    Widen16(p.peers[k].address.port) = Field("peers").v[k].v["port"].v
    /\ (res.out = "from_value" /\ res.variant = "ok") =>
          Widen16(res.payload.peers[1].address.port) = Field("peers").v[1].v["port"].v

====
